---- MODULE Spec2Model ----
(***************************************************************************)
(* State-machine model of the MathAgent backend: the in-memory session     *)
(* store and its approval workflow (backend/main.py) together with the     *)
(* input guardrail the stages call (backend/agents.py).                    *)
(*                                                                         *)
(* Spec follows the session workflow, with a stage call taken as its       *)
(* outcome; LiveSpec is the same workflow left to run, with fairness;      *)
(* StageSpec follows the calls one agent receives through their awaits;    *)
(* GuardSpec applies the validator to the texts of a bounded set.          *)
(*                                                                         *)
(* A text is a sequence of characters, each character a one-character      *)
(* string.  The event loop is single threaded: a coroutine runs until it   *)
(* awaits a remote call, and only then can another request or task run.    *)
(***************************************************************************)
EXTENDS Integers, Sequences, FiniteSets, Bags, TLC

(* ------------------------------ bounds -------------------------------- *)
\* number of session ids uuid4 hands out in a run
MaxSessions == 1
\* number of messages, stored or still to be appended by tasks in flight
MaxMessages == 7
\* number of stage calls one MathematicalAgent receives in a run
MaxCalls == 3
\* number of words an input of the validator is made of
MaxWords == 2

(* ------------------------------- texts -------------------------------- *)
UpperAZ == <<"A","B","C","D","E","F","G","H","I","J","K","L","M",
             "N","O","P","Q","R","S","T","U","V","W","X","Y","Z">>
LowerAZ == <<"a","b","c","d","e","f","g","h","i","j","k","l","m",
             "n","o","p","q","r","s","t","u","v","w","x","y","z">>
Digits == {"0","1","2","3","4","5","6","7","8","9"}
Whitespace == {" ", "\t", "\n"}

\* str.lower() on one character
LowerChar(c) ==
  IF \E i \in 1..26 : UpperAZ[i] = c
  THEN LowerAZ[CHOOSE i \in 1..26 : UpperAZ[i] = c]
  ELSE c

\* str.lower()
lower(text) == [i \in 1..Len(text) |-> LowerChar(text[i])]

\* str.strip(): drops leading and trailing whitespace
strip(text) ==
  LET keep == {i \in 1..Len(text) : text[i] \notin Whitespace}
  IN IF keep = {} THEN <<>>
     ELSE LET lo == CHOOSE i \in keep : \A j \in keep : i <= j
              hi == CHOOSE i \in keep : \A j \in keep : j <= i
          IN SubSeq(text, lo, hi)

\* Python's `word in text` on strings: word is a contiguous part of text
Contains(text, word) ==
  \E i \in 0..(Len(text) - Len(word)) : SubSeq(text, i + 1, i + Len(word)) = word

\* any(word in text for word in words)
ContainsAny(text, words) == \E w \in words : Contains(text, w)

(* ---------------------------- input guardrail ------------------------- *)
\* Characters outside ASCII are written by their code point.
MATH_KEYWORDS ==
  {<<"s","o","l","v","e">>, <<"e","q","u","a","t","i","o","n">>,
   <<"d","e","r","i","v","a","t","i","v","e">>,
   <<"i","n","t","e","g","r","a","l">>, <<"f","u","n","c","t","i","o","n">>,
   <<"g","r","a","p","h">>, <<"p","l","o","t">>,
   <<"a","l","g","e","b","r","a">>, <<"c","a","l","c","u","l","u","s">>,
   <<"g","e","o","m","e","t","r","y">>,
   <<"t","r","i","g","o","n","o","m","e","t","r","y">>,
   <<"s","t","a","t","i","s","t","i","c","s">>,
   <<"p","r","o","b","a","b","i","l","i","t","y">>,
   <<"m","a","t","r","i","x">>, <<"v","e","c","t","o","r">>,
   <<"l","i","m","i","t">>, <<"s","e","r","i","e","s">>,
   <<"t","h","e","o","r","e","m">>, <<"p","r","o","o","f">>,
   <<"f","o","r","m","u","l","a">>, <<"c","a","l","c","u","l","a","t","e">>,
   <<"c","o","m","p","u","t","e">>, <<"s","i","m","p","l","i","f","y">>,
   <<"f","a","c","t","o","r">>, <<"e","x","p","a","n","d">>,
   <<"e","v","a","l","u","a","t","e">>,
   <<"p","o","l","y","n","o","m","i","a","l">>,
   <<"e","x","p","o","n","e","n","t","i","a","l">>,
   <<"l","o","g","a","r","i","t","h","m">>, <<"s","i","n","e">>,
   <<"c","o","s","i","n","e">>, <<"t","a","n","g","e","n","t">>,
   <<"d","i","f","f","e","r","e","n","t","i","a","l">>,
   <<"o","p","t","i","m","i","z","a","t","i","o","n">>,
   <<"m","i","n","i","m","u","m">>, <<"m","a","x","i","m","u","m">>,
   <<"a","r","e","a">>, <<"v","o","l","u","m","e">>,
   <<"p","e","r","i","m","e","t","e","r">>,
   <<"d","i","s","t","a","n","c","e">>, <<"s","l","o","p","e">>,
   <<"i","n","t","e","r","c","e","p","t">>,
   <<"q","u","a","d","r","a","t","i","c">>, <<"l","i","n","e","a","r">>,
   <<"p","a","r","a","b","o","l","a">>, <<"c","i","r","c","l","e">>,
   <<"t","r","i","a","n","g","l","e">>,
   <<"r","e","c","t","a","n","g","l","e">>, <<"s","p","h","e","r","e">>,
   <<"c","y","l","i","n","d","e","r">>, <<"b","i","n","o","m","i","a","l">>,
   <<"f","a","c","t","o","r","i","a","l">>,
   <<"p","e","r","m","u","t","a","t","i","o","n">>,
   <<"c","o","m","b","i","n","a","t","i","o","n">>,
   <<"v","a","r","i","a","n","c","e">>,
   <<"d","e","v","i","a","t","i","o","n">>}
NON_MATH_INDICATORS ==
  {<<"w","r","i","t","e"," ","a"," ","s","t","o","r","y">>,
   <<"t","e","l","l"," ","m","e"," ","a"," ","j","o","k","e">>,
   <<"w","e","a","t","h","e","r">>, <<"n","e","w","s">>,
   <<"r","e","c","i","p","e">>, <<"m","o","v","i","e">>,
   <<"b","o","o","k"," ","r","e","c","o","m","m","e","n","d","a","t","i","o","n">>,
   <<"h","e","a","l","t","h"," ","a","d","v","i","c","e">>,
   <<"r","e","l","a","t","i","o","n","s","h","i","p">>,
   <<"w","h","a","t"," ","i","s"," ","y","o","u","r"," ","o","p","i","n","i","o","n">>,
   <<"h","o","w"," ","d","o"," ","y","o","u"," ","f","e","e","l">>,
   <<"p","e","r","s","o","n","a","l"," ","e","x","p","e","r","i","e","n","c","e">>}
EDGE_CASE_WORDS ==
  {<<"f","i","n","d">>, <<"w","h","a","t"," ","i","s">>,
   <<"h","o","w"," ","m","u","c","h">>,
   <<"c","a","l","c","u","l","a","t","e">>}

LettersAZ == {LowerAZ[i] : i \in 1..26}
\* what \b in a regular expression counts as part of a word
WordChars ==
  LettersAZ \cup {UpperAZ[i] : i \in 1..26} \cup Digits \cup
  {"_", "U+03C0", "U+03B8", "U+03B1", "U+03B2", "U+03B3", "U+03BB", "U+03BC",
   "U+03C3"}
OperatorChars ==
  {"+", "-", "*", "/", "=", "<", ">", "U+2264", "U+2265", "U+2260", "U+00B1",
   "U+221E"}
SymbolChars ==
  {"U+222B", "U+2211", "U+220F", "U+2202", "U+2206", "U+03C0", "U+03B8",
   "U+03B1", "U+03B2", "U+03B3", "U+03BB", "U+03BC", "U+03C3"}
FunctionNames ==
  {<<"s","i","n">>, <<"c","o","s">>, <<"t","a","n">>, <<"l","o","g">>,
   <<"l","n">>, <<"s","q","r","t">>}

\* text[a..b] is a non-empty run of digits
DigitRun(text, a, b) == a <= b /\ \A n \in a..b : text[n] \in Digits

\* \b\d+<sep>\d+\b
NumberPair(text, sep) ==
  \E a, b, c \in 1..Len(text) :
    /\ DigitRun(text, a, b)
    /\ b + 2 <= c
    /\ text[b + 1] = sep
    /\ DigitRun(text, b + 2, c)
    /\ (a = 1 \/ text[a - 1] \notin WordChars)
    /\ (c = Len(text) \/ text[c + 1] \notin WordChars)

\* any(pattern.search(text) for pattern in MATH_PATTERNS)
MATH_PATTERNS(text) ==
  \/ \E i \in 1..Len(text) : text[i] \in OperatorChars
  \/ \E i \in 1..Len(text) : text[i] \in {"x", "y"}
  \/ \E i \in 1..(Len(text) - 1) : text[i] \in Digits /\ text[i + 1] \in {"x", "y"}
  \/ ContainsAny(lower(text), FunctionNames)
  \/ \E i \in 1..Len(text) : text[i] \in SymbolChars
  \/ NumberPair(text, ".")
  \/ NumberPair(text, "/")
  \/ \E a, m, b \in 1..Len(text) :
       /\ a < m /\ m < b
       /\ text[a] = "(" /\ text[m] \in {"x", "y"} /\ text[b] = ")"
       /\ \A n \in (a + 1)..(b - 1) : text[n] # ")"
  \/ \E a, b \in 1..Len(text) :
       /\ a < b
       /\ text[a] \in LettersAZ /\ text[b] \in {"U+00B2", "U+00B3"}
       /\ \A n \in (a + 1)..(b - 1) : text[n] \in Whitespace

\* a fixed string of the program, named
Literal(name) == [k |-> "literal", name |-> name]

\* the validator, were the acceptance checks made before the rejection
validate_accepting_first(topic) ==
  IF topic = <<>> \/ strip(topic) = <<>>
  THEN [is_valid |-> FALSE, message |-> Literal("provide_question")]
  ELSE
    LET topic_lower == strip(lower(topic))
    IN IF ContainsAny(topic_lower, MATH_KEYWORDS) \/ MATH_PATTERNS(topic_lower)
       THEN [is_valid |-> TRUE, message |-> Literal("valid_input")]
       ELSE IF ContainsAny(topic_lower, NON_MATH_INDICATORS)
       THEN [is_valid |-> FALSE, message |-> Literal("designed_for_math")]
       ELSE IF ContainsAny(topic_lower, EDGE_CASE_WORDS)
       THEN [is_valid |-> TRUE, message |-> Literal("proceed_with_caution")]
       ELSE [is_valid |-> FALSE, message |-> Literal("not_mathematical")]

\* the validator, were the regular expressions not consulted
validate_keywords_only(topic) ==
  IF topic = <<>> \/ strip(topic) = <<>>
  THEN [is_valid |-> FALSE, message |-> Literal("provide_question")]
  ELSE
    LET topic_lower == strip(lower(topic))
    IN IF ContainsAny(topic_lower, NON_MATH_INDICATORS)
       THEN [is_valid |-> FALSE, message |-> Literal("designed_for_math")]
       ELSE IF ContainsAny(topic_lower, MATH_KEYWORDS)
       THEN [is_valid |-> TRUE, message |-> Literal("valid_input")]
       ELSE IF ContainsAny(topic_lower, EDGE_CASE_WORDS)
       THEN [is_valid |-> TRUE, message |-> Literal("proceed_with_caution")]
       ELSE [is_valid |-> FALSE, message |-> Literal("not_mathematical")]

validate_math_input(topic) ==
  IF topic = <<>> \/ strip(topic) = <<>>
  THEN [is_valid |-> FALSE, message |-> Literal("provide_question")]
  ELSE
    LET topic_lower == strip(lower(topic))
        has_math_keywords == ContainsAny(topic_lower, MATH_KEYWORDS)
        has_math_patterns == MATH_PATTERNS(topic_lower)
    IN IF ContainsAny(topic_lower, NON_MATH_INDICATORS)
       THEN [is_valid |-> FALSE, message |-> Literal("designed_for_math")]
       ELSE IF has_math_keywords \/ has_math_patterns
       THEN [is_valid |-> TRUE, message |-> Literal("valid_input")]
       ELSE IF ContainsAny(topic_lower, EDGE_CASE_WORDS)
       THEN [is_valid |-> TRUE, message |-> Literal("proceed_with_caution")]
       ELSE [is_valid |-> FALSE, message |-> Literal("not_mathematical")]

\* str(result) of an agent run or of a direct completion: text the model
\* cannot know, tagged with the stage and the tier that produced it
LLMText(stage, tier) ==
  [k |-> "llm", stage |-> stage, tier |-> tier, formatted |-> FALSE]

\* the regex substitutions rewrite a completion's text into another text
format_math_output(text) == [text EXCEPT !.formatted = TRUE]

(* ------------------------------ the stages ---------------------------- *)
\* the requests' topics: one the validator accepts and one it rejects
Topics == {<<"x", "+", "1">>, <<"N", "e", "w", "s">>}

\* validate_math_input on the topics of the requests, evaluated once each
Validation == [topic \in Topics |-> validate_math_input(topic)]

\* a validation that lets every topic pass
ValidatePasses(topic) == [is_valid |-> TRUE, message |-> Literal("valid_input")]

\* the call MathGuardrails.validate_math_input(topic) of a stage
Validate(topic) ==
  IF topic \in Topics THEN Validation[topic] ELSE validate_math_input(topic)

\* the exceptions a remote call can raise, by name: two that differ
Exceptions == {"DeadlineExceeded", "ResourceExhausted"}

\* How a stage that reached its remote calls ended: the agent answered, the
\* agent was missing or failed and the direct completion answered, or the
\* completion failed too, with the exception it raised.
Tiers == {"agent", "llm"} \cup Exceptions

\* a fixed text of the program followed by str(e)
ErrorText(name, e) == [k |-> "error_text", name |-> name, e |-> e]

research_topic(topic, tier) ==
  LET v == Validate(topic)
  IN IF ~v.is_valid THEN v.message
     ELSE IF tier \in Exceptions THEN Literal("fundamental_principles")
     ELSE LLMText("research", tier)

solve_problem(topic, research_context, tier) ==
  LET v == Validate(topic)
  IN IF ~v.is_valid THEN v.message
     ELSE IF tier \in Exceptions THEN ErrorText("error_solving", tier)
     ELSE format_math_output(LLMText("solve", tier))

improve_solution(original_solution, feedback, topic, tier) ==
  IF tier \in Exceptions THEN ErrorText("error_improving", tier)
  ELSE format_math_output(LLMText("improve", tier))

\* the stages, were they to await a remote call for every topic
AwaitsAlways(topic) == TRUE

\* research_topic and solve_problem return the validator's message at once
\* for a topic it rejects; for any other topic they await remote calls
Awaits(topic) == Validate(topic).is_valid

(* ------------------------------ the state ----------------------------- *)
VARIABLES
  sessions,  \* the keys of the dict `sessions`: the ids in the store
  sess,      \* the session dicts ever created, by id: a deleted one lives on
             \* while a task or handler still holds it
  tasks,     \* the process_math_question tasks created and not finished,
             \* each waiting to start or suspended in an await
  running,   \* the task that is between two statements with no await, or NoTask
  handlers,  \* the human_input calls suspended in await improve_solution
  agent,     \* the fields of one MathematicalAgent, a session's "agent"
  calls,     \* the stage calls that agent received, in the order made, each
             \* with the await it is suspended in or the way it ended
  input,     \* the text handed to the validator
  verdict    \* what the validator returned for it, or None

\* the session store and its tasks (backend/main.py)
vars == <<sessions, sess, tasks, running, handlers>>
\* one agent and its stage calls (backend/agents.py)
stage_vars == <<agent, calls>>
\* one call of the validator
guard_vars == <<input, verdict>>
all_vars == <<vars, stage_vars, guard_vars>>

None == [k |-> "None"]
NoTask == [pc |-> "none"]
\* ChatRequest.session_id when the client sends none
NoId == -1
\* an id that uuid4 never returned
UnknownId == 0

\* the requests' feedback: one that approves and one that does not
Feedbacks == {<<"O", "k", " ">>, <<"n", "o">>}
\* main.py hands a stage's text on unread, whichever tier produced it: the
\* session workflow is explored with the stages answering through the agent
Answers == {"agent"}

\* MathematicalAgent.__init__
MathematicalAgent ==
  [research_agent |-> None, math_agent |-> None, tools_initialized |-> FALSE]

Message(role, content) == [role |-> role, content |-> content]
Raw(text) == [k |-> "raw", text |-> text]

\* ids a request can name: those handed out so far and one never handed out
KnownIds == UnknownId..Len(sess)

RECURSIVE Stored(_)
\* messages held by the first n session dicts
Stored(n) == IF n = 0 THEN 0 ELSE Len(sess[n].messages) + Stored(n - 1)

\* messages the tasks and handlers in flight can still append
Pending ==
  BagCardinality(tasks) + BagCardinality(handlers)
  + (IF running = NoTask THEN 0 ELSE 1)

Room(need) == Stored(Len(sess)) + Pending + need <= MaxMessages

Init ==
  /\ sessions = {}
  /\ sess = <<>>
  /\ tasks = EmptyBag
  /\ running = NoTask
  /\ handlers = EmptyBag
  /\ agent = MathematicalAgent
  /\ calls = <<>>
  /\ input = <<>>
  /\ verdict = None

(* ------------------------------- POST /chat --------------------------- *)
\* the new session, were it created awaiting approval
NewSessionWaiting(topic) ==
  [status |-> "processing",
   messages |-> <<Message("user", Raw(topic))>>,
   waiting_for_approval |-> TRUE,
   current_solution |-> None,
   current_topic |-> topic,
   research_context |-> None]

NewSession(topic) ==
  [status |-> "processing",
   messages |-> <<Message("user", Raw(topic))>>,
   waiting_for_approval |-> FALSE,
   current_solution |-> None,
   current_topic |-> topic,
   research_context |-> None]

\* the continuing branch, were it to start the message list again
ContinueSessionFromScratch(s, topic) ==
  [s EXCEPT !.messages = <<Message("user", Raw(topic))>>]

\* the continuing branch, were it to take the new topic as current_topic
ContinueSessionRetopic(s, topic) ==
  [s EXCEPT !.messages = Append(@, Message("user", Raw(topic))),
            !.current_topic = topic]

ContinueSession(s, topic) ==
  [s EXCEPT !.messages = Append(@, Message("user", Raw(topic)))]

create_task(session_id, topic) ==
  SetToBag({[session_id |-> session_id, topic |-> topic, pc |-> "start",
             research_result |-> None]})

chat(topic, session_id) ==
  /\ running = NoTask
  /\ Room(2)
  /\ IF session_id # NoId /\ session_id \in sessions
     THEN /\ sess' = [sess EXCEPT ![session_id] = ContinueSession(@, topic)]
          /\ tasks' = tasks (+) create_task(session_id, topic)
          /\ UNCHANGED sessions
     ELSE /\ Len(sess) < MaxSessions
          /\ LET uuid == Len(sess) + 1
             IN /\ sess' = Append(sess, NewSession(topic))
                /\ sessions' = sessions \cup {uuid}
                /\ tasks' = tasks (+) create_task(uuid, topic)
  /\ UNCHANGED <<running, handlers>>

(* ----------------------- process_math_question ------------------------ *)
\* Steps 1 and 2 write the status the stage call is made under.
Researching(s) == [s EXCEPT !.status = "researching"]

Solving(s, research_result) ==
  [s EXCEPT !.research_context = research_result, !.status = "solving"]

approval_message(solution) == [k |-> "approval_message", solution |-> solution]

\* Step 3 without the line that sets the flag
PresentWithoutFlag(s, solution) ==
  [s EXCEPT !.current_solution = solution,
            !.status = "waiting_for_approval",
            !.messages = Append(@, Message("assistant", approval_message(solution)))]

\* Step 3 without the line that writes the status
PresentKeepsStatus(s, solution) ==
  [s EXCEPT !.current_solution = solution,
            !.waiting_for_approval = TRUE,
            !.messages = Append(@, Message("assistant", approval_message(solution)))]

\* Step 3: present the solution and await feedback
Present(s, solution) ==
  [s EXCEPT !.current_solution = solution,
            !.waiting_for_approval = TRUE,
            !.status = "waiting_for_approval",
            !.messages = Append(@, Message("assistant", approval_message(solution)))]

\* the except branch without its diagnostic message
PipelineErrorSilent(s) == [s EXCEPT !.status = "error"]

\* the except branch, for a session still in the store
PipelineError(s) ==
  [s EXCEPT !.status = "error",
            !.messages = Append(@, Message("assistant", Literal("encountered_error")))]

\* The task runs for the first time: it looks the session up, writes
\* status researching and calls research_topic.
PipelineStart(t) ==
  /\ running = NoTask
  /\ BagIn(t, tasks)
  /\ t.pc = "start"
  /\ IF t.session_id \notin sessions
     THEN /\ tasks' = tasks (-) SetToBag({t})
          /\ UNCHANGED <<sess, running>>
     ELSE /\ sess' = [sess EXCEPT ![t.session_id] = Researching(@)]
          /\ IF Awaits(t.topic)
             THEN /\ tasks' = (tasks (-) SetToBag({t}))
                                (+) SetToBag({[t EXCEPT !.pc = "research"]})
                  /\ UNCHANGED running
             ELSE /\ tasks' = tasks (-) SetToBag({t})
                  /\ running' = [t EXCEPT !.pc = "research"]
  /\ UNCHANGED <<sessions, handlers>>

\* research_topic returned: store the context, write status solving and
\* call solve_problem.  The task writes through the dict it looked up at its
\* start, in the store or not.
AfterResearch(t, research_result, rest) ==
  /\ sess' = [sess EXCEPT ![t.session_id] = Solving(@, research_result)]
  /\ LET next == [t EXCEPT !.pc = "solve", !.research_result = research_result]
     IN IF Awaits(t.topic)
        THEN tasks' = rest (+) SetToBag({next}) /\ running' = NoTask
        ELSE tasks' = rest /\ running' = next
  /\ UNCHANGED <<sessions, handlers>>

\* solve_problem returned: step 3, and the task ends
AfterSolve(t, solution, rest) ==
  /\ sess' = [sess EXCEPT ![t.session_id] = Present(@, solution)]
  /\ tasks' = rest
  /\ running' = NoTask
  /\ UNCHANGED <<sessions, handlers>>

\* the except branch, were it to store the dict the task holds again
PipelineExceptRestores(t, rest) ==
  /\ sessions' = sessions \cup {t.session_id}
  /\ sess' = [sess EXCEPT ![t.session_id] = PipelineError(@)]
  /\ tasks' = rest
  /\ UNCHANGED <<running, handlers>>

\* an exception left the awaited stage call: the except branch, and the
\* task ends
PipelineExcept(t, rest) ==
  /\ IF t.session_id \in sessions
     THEN sess' = [sess EXCEPT ![t.session_id] = PipelineError(@)]
     ELSE UNCHANGED sess
  /\ tasks' = rest
  /\ UNCHANGED <<sessions, running, handlers>>

ResearchResume(t, tier) ==
  /\ running = NoTask
  /\ BagIn(t, tasks)
  /\ t.pc = "research"
  /\ AfterResearch(t, research_topic(t.topic, tier), tasks (-) SetToBag({t}))

ResearchRaise(t) ==
  /\ running = NoTask
  /\ BagIn(t, tasks)
  /\ t.pc = "research"
  /\ PipelineExcept(t, tasks (-) SetToBag({t}))

\* research_topic returned the validator's message without awaiting
ResearchReturn ==
  /\ running # NoTask
  /\ running.pc = "research"
  /\ \E tier \in Answers :
       AfterResearch(running, research_topic(running.topic, tier), tasks)

SolveResume(t, tier) ==
  /\ running = NoTask
  /\ BagIn(t, tasks)
  /\ t.pc = "solve"
  /\ AfterSolve(t, solve_problem(t.topic, t.research_result, tier),
                tasks (-) SetToBag({t}))

SolveRaise(t) ==
  /\ running = NoTask
  /\ BagIn(t, tasks)
  /\ t.pc = "solve"
  /\ PipelineExcept(t, tasks (-) SetToBag({t}))

\* solve_problem returned the validator's message without awaiting
SolveReturn ==
  /\ running # NoTask
  /\ running.pc = "solve"
  /\ \E tier \in Answers :
       AfterSolve(running,
                  solve_problem(running.topic, running.research_result, tier),
                  tasks)

(* --------------------------- POST /human-input ------------------------ *)
ApprovalWords ==
  {<<"a","p","p","r","o","v","e">>, <<"a","p","p","r","o","v","e","d">>,
   <<"y","e","s">>, <<"o","k">>, <<"c","o","r","r","e","c","t">>,
   <<"g","o","o","d">>, <<"l","o","o","k","s"," ","g","o","o","d">>}

IsApproval(feedback) == ContainsAny(lower(strip(feedback)), ApprovalWords)

\* the approve branch with the messages before and after it
Approve(s, feedback) ==
  [s EXCEPT !.status = "completed",
            !.waiting_for_approval = FALSE,
            !.current_solution = None,
            !.messages =
              @ \o <<Message("user", Raw(feedback)),
                     Message("assistant",
                             [k |-> "solution_approved",
                              solution |-> s.current_solution])>>]

\* the improve branch up to the await
Improving(s, feedback) ==
  [s EXCEPT !.status = "improving",
            !.messages =
              @ \o <<Message("user", Raw(feedback)),
                     Message("assistant", Literal("thank_you"))>>]

\* the improve branch after the await, were it to keep the old solution
ImprovedKeepsSolution(s, feedback, improved_solution) ==
  [s EXCEPT !.status = "waiting_for_approval",
            !.messages =
              Append(@, Message("assistant",
                                [k |-> "solution_improved",
                                 feedback |-> feedback,
                                 solution |-> improved_solution]))]

\* the improve branch after the await
Improved(s, feedback, improved_solution) ==
  [s EXCEPT !.current_solution = improved_solution,
            !.status = "waiting_for_approval",
            !.messages =
              Append(@, Message("assistant",
                                [k |-> "solution_improved",
                                 feedback |-> feedback,
                                 solution |-> improved_solution]))]

\* the except branch of human_input
FeedbackError(s) ==
  [s EXCEPT !.status = "error",
            !.messages =
              Append(@, Message("assistant", Literal("error_processing_feedback")))]

\* The status code human_input answers a request that arrives now: 404 and
\* 400 are answered at once; 200 stands for a request that is accepted, which
\* ends in 200, or in 500 when improve_solution raises.
human_input_code(session_id) ==
  IF session_id \notin sessions THEN 404
  ELSE IF ~sess[session_id].waiting_for_approval THEN 400
  ELSE 200

human_input(session_id, feedback) ==
  /\ running = NoTask
  /\ IF human_input_code(session_id) # 200
     THEN UNCHANGED <<sess, handlers>>
     ELSE IF IsApproval(feedback)
     THEN /\ Room(2)
          /\ sess' = [sess EXCEPT ![session_id] = Approve(@, feedback)]
          /\ UNCHANGED handlers
     ELSE /\ Room(3)
          /\ sess' = [sess EXCEPT ![session_id] = Improving(@, feedback)]
          /\ handlers' = handlers (+) SetToBag({
               [session_id |-> session_id, feedback |-> feedback,
                current_solution |-> sess[session_id].current_solution,
                topic |-> sess[session_id].current_topic]})
  /\ UNCHANGED <<sessions, tasks, running>>

\* improve_solution returned.  The handler writes through the dict it looked
\* up when the request arrived, in the store or not.
ImproveResume(h, tier) ==
  /\ running = NoTask
  /\ BagIn(h, handlers)
  /\ sess' = [sess EXCEPT ![h.session_id] =
                Improved(@, h.feedback,
                         improve_solution(h.current_solution, h.feedback,
                                          h.topic, tier))]
  /\ handlers' = handlers (-) SetToBag({h})
  /\ UNCHANGED <<sessions, tasks, running>>

\* an exception left improve_solution
ImproveRaise(h) ==
  /\ running = NoTask
  /\ BagIn(h, handlers)
  /\ sess' = [sess EXCEPT ![h.session_id] = FeedbackError(@)]
  /\ handlers' = handlers (-) SetToBag({h})
  /\ UNCHANGED <<sessions, tasks, running>>

(* ------------------- GET and DELETE /chat/{session_id} ---------------- *)
\* what GET /chat/{session_id} answers a request that arrives now
get_chat_response(session_id) ==
  IF session_id \notin sessions
  THEN [code |-> 404, status |-> "", waiting |-> FALSE]
  ELSE [code |-> 200, status |-> sess[session_id].status,
        waiting |-> sess[session_id].waiting_for_approval]

\* get_chat reads and writes nothing
get_chat(session_id) ==
  /\ running = NoTask
  /\ get_chat_response(session_id).code \in {200, 404}
  /\ UNCHANGED vars

\* the status code DELETE /chat/{session_id} answers a request that arrives now
delete_session_code(session_id) ==
  IF session_id \in sessions THEN 200 ELSE 404

delete_session(session_id) ==
  /\ running = NoTask
  /\ IF session_id \in sessions
     THEN sessions' = sessions \ {session_id}
     ELSE UNCHANGED sessions
  /\ UNCHANGED <<sess, tasks, running, handlers>>

(* --------------------------- the specification ------------------------ *)
\* The session workflow: a step of backend/main.py.  What a stage call does
\* inside is the next section's; here a stage is its outcome, and the agent
\* and the validator's input are not followed.
Store(A) == A /\ UNCHANGED <<stage_vars, guard_vars>>

Next ==
  \/ \E topic \in Topics, session_id \in KnownIds \cup {NoId} :
       Store(chat(topic, session_id))
  \/ \E t \in BagToSet(tasks) : Store(PipelineStart(t))
  \/ \E t \in BagToSet(tasks), tier \in Answers : Store(ResearchResume(t, tier))
  \/ \E t \in BagToSet(tasks) : Store(ResearchRaise(t))
  \/ Store(ResearchReturn)
  \/ \E t \in BagToSet(tasks), tier \in Answers : Store(SolveResume(t, tier))
  \/ \E t \in BagToSet(tasks) : Store(SolveRaise(t))
  \/ Store(SolveReturn)
  \/ \E session_id \in KnownIds, feedback \in Feedbacks :
       Store(human_input(session_id, feedback))
  \/ \E h \in BagToSet(handlers), tier \in Answers : Store(ImproveResume(h, tier))
  \/ \E h \in BagToSet(handlers) : Store(ImproveRaise(h))
  \/ \E session_id \in KnownIds : Store(get_chat(session_id))
  \/ \E session_id \in KnownIds : Store(delete_session(session_id))

Spec == Init /\ [][Next]_all_vars

(* ----------------------- the pipelines left to run --------------------- *)
\* a step of a pipeline task
PipelineStep ==
  \/ \E t \in BagToSet(tasks) :
       PipelineStart(t) \/ ResearchRaise(t) \/ SolveRaise(t)
  \/ \E t \in BagToSet(tasks), tier \in Answers :
       ResearchResume(t, tier) \/ SolveResume(t, tier)
  \/ ResearchReturn
  \/ SolveReturn

\* POST /chat, GET /chat and the pipelines, with no feedback and no deletion
LiveNext ==
  \/ \E topic \in Topics, session_id \in KnownIds \cup {NoId} :
       Store(chat(topic, session_id))
  \/ \E t \in BagToSet(tasks) : Store(PipelineStart(t))
  \/ \E t \in BagToSet(tasks), tier \in Answers : Store(ResearchResume(t, tier))
  \/ \E t \in BagToSet(tasks) : Store(ResearchRaise(t))
  \/ Store(ResearchReturn)
  \/ \E t \in BagToSet(tasks), tier \in Answers : Store(SolveResume(t, tier))
  \/ \E t \in BagToSet(tasks) : Store(SolveRaise(t))
  \/ Store(SolveReturn)
  \/ \E session_id \in KnownIds : Store(get_chat(session_id))

\* The event loop runs a task that was created or that can go on, and every
\* remote call a task awaits returns or raises.
LiveSpec ==
  Init /\ [][LiveNext]_all_vars /\ WF_all_vars(Store(PipelineStep))

(* -------------------- inside a stage call (agents.py) ------------------ *)
Stages == {"research_topic", "solve_problem", "improve_solution"}

\* the places of a stage call where a remote service or a constructor fails
Points == {"get_mcp_tools", "research_agent", "math_agent", "run", "acomplete"}

\* the try blocks, were the direct completion outside them
exceptsAllButCompletion(stage, point) == point \in Points \ {"acomplete"}

\* the statement at `point` lies in a try block with `except Exception`
excepts(stage, point) == point \in Points

FunctionAgent(name, tools) == [k |-> "FunctionAgent", name |-> name, tools |-> tools]

\* get_mcp_tools: the tools of the MCP server, or [] when loading them failed
get_mcp_tools(loaded) == IF loaded THEN <<"mcp_tools">> ELSE <<>>

\* _create_agents from the return of get_mcp_tools on: both constructors and
\* the flag, with no await between them.  `raised` tells that an exception
\* left the method.
create_agents(a, loaded, research_built, math_built) ==
  IF ~loaded /\ ~excepts("_create_agents", "get_mcp_tools")
  THEN [agent |-> a, raised |-> TRUE]
  ELSE
    LET tools == <<"rag_tool">> \o get_mcp_tools(loaded)
        a1 == IF research_built
              THEN [a EXCEPT !.research_agent =
                               FunctionAgent("MathResearchAgent", tools)]
              ELSE [a EXCEPT !.research_agent = None]
        a2 == IF math_built
              THEN [a1 EXCEPT !.math_agent = FunctionAgent("MathSolverAgent", <<>>)]
              ELSE [a1 EXCEPT !.math_agent = None]
    IN IF ~research_built /\ ~excepts("_create_agents", "research_agent")
       THEN [agent |-> a, raised |-> TRUE]
       ELSE IF ~math_built /\ ~excepts("_create_agents", "math_agent")
       THEN [agent |-> a1, raised |-> TRUE]
       ELSE [agent |-> [a2 EXCEPT !.tools_initialized = TRUE], raised |-> FALSE]

\* the agent a stage runs: self.research_agent or self.math_agent
StageAgent(stage, a) ==
  IF stage = "research_topic" THEN a.research_agent ELSE a.math_agent

\* A stage call: its arguments, where it stands, and what it did so far.
\* `given` is research_context for solve_problem and original_solution for
\* improve_solution; runs and completions count the awaits of agent.run and
\* of llm.acomplete; found tells whether the call found its agent built;
\* created tells whether the call went past the tools_initialized test into
\* the body of _create_agents.
NewCall(stage, topic, given) ==
  [stage |-> stage, topic |-> topic, given |-> given, pc |-> "called",
   runs |-> 0, completions |-> 0, found |-> FALSE, run_raised |-> FALSE,
   created |-> FALSE, result |-> None]

\* the text a call returns when it ends in `tier`
StageResult(c, tier) ==
  IF c.stage = "research_topic" THEN research_topic(c.topic, tier)
  ELSE IF c.stage = "solve_problem" THEN solve_problem(c.topic, c.given, tier)
  ELSE improve_solution(c.given, <<"n", "o">>, c.topic, tier)

Return(c, tier) == [c EXCEPT !.pc = "returned", !.result = StageResult(c, tier)]

\* the exception leaves the stage call
Raise(c) == [c EXCEPT !.pc = "raised"]

\* the fallback: await llm.acomplete
Complete(c) == [c EXCEPT !.pc = "acomplete", !.completions = @ + 1]

\* the dispatch, were the completion requested beside a built agent
DispatchToCompletion(c, a) ==
  Complete([c EXCEPT !.found = StageAgent(c.stage, a) # None])

\* after _create_agents: run the agent if there is one, else complete
Dispatch(c, a) ==
  IF StageAgent(c.stage, a) # None
  THEN [c EXCEPT !.pc = "run", !.runs = @ + 1, !.found = TRUE]
  ELSE Complete(c)

ReturnedResults(stages, topics) ==
  {calls[i].result : i \in {j \in 1..Len(calls) :
                              /\ calls[j].pc = "returned"
                              /\ calls[j].stage \in stages
                              /\ calls[j].topic \in topics}}

\* The calls main.py makes on a session's agent: research_topic when a
\* pipeline starts; solve_problem with the topic and the result of a
\* research_topic call that returned, once for each; improve_solution with a
\* solution a solve_problem or improve_solution call returned and the topic
\* of the session, which is the topic of the agent's first call.
Callable(stage, topic, given) ==
  IF stage = "research_topic" THEN given = None
  ELSE IF stage = "solve_problem"
  THEN Cardinality({i \in 1..Len(calls) :
                      /\ calls[i].stage = "solve_problem"
                      /\ calls[i].topic = topic /\ calls[i].given = given})
       < Cardinality({i \in 1..Len(calls) :
                        /\ calls[i].stage = "research_topic"
                        /\ calls[i].pc = "returned"
                        /\ calls[i].topic = topic /\ calls[i].result = given})
  ELSE /\ Len(calls) > 0
       /\ topic = calls[1].topic
       /\ given \in ReturnedResults({"solve_problem", "improve_solution"}, Topics)

\* The call up to its first await: the validation, and for a topic that
\* passes it _create_agents, which awaits get_mcp_tools unless the agents
\* were set up before.
Call(stage, topic, given) ==
  /\ Len(calls) < MaxCalls
  /\ Callable(stage, topic, given)
  /\ LET c == NewCall(stage, topic, given)
     IN calls' = Append(calls,
          IF stage # "improve_solution" /\ ~Validate(topic).is_valid
          THEN Return(c, "agent")
          ELSE IF agent.tools_initialized THEN Dispatch(c, agent)
          ELSE [c EXCEPT !.pc = "get_mcp_tools", !.created = TRUE])
  /\ UNCHANGED agent

\* get_mcp_tools returned to _create_agents, with the tools or without
ToolsResume(i, loaded, research_built, math_built) ==
  /\ calls[i].pc = "get_mcp_tools"
  /\ LET made == create_agents(agent, loaded, research_built, math_built)
     IN /\ agent' = made.agent
        /\ calls' = [calls EXCEPT ![i] =
                       IF made.raised THEN Raise(@) ELSE Dispatch(@, made.agent)]

AgentReturns(i) ==
  /\ calls[i].pc = "run"
  /\ calls' = [calls EXCEPT ![i] = Return(@, "agent")]
  /\ UNCHANGED agent

AgentRaises(i) ==
  /\ calls[i].pc = "run"
  /\ calls' = [calls EXCEPT ![i] =
                 IF excepts(@.stage, "run")
                 THEN Complete([@ EXCEPT !.run_raised = TRUE])
                 ELSE Raise(@)]
  /\ UNCHANGED agent

CompletionReturns(i) ==
  /\ calls[i].pc = "acomplete"
  /\ calls' = [calls EXCEPT ![i] = Return(@, "llm")]
  /\ UNCHANGED agent

CompletionRaises(i, e) ==
  /\ calls[i].pc = "acomplete"
  /\ calls' = [calls EXCEPT ![i] =
                 IF excepts(@.stage, "acomplete") THEN Return(@, e) ELSE Raise(@)]
  /\ UNCHANGED agent

\* a step of backend/agents.py on one agent; the session store is not followed
Stage(A) == A /\ UNCHANGED <<vars, guard_vars>>

StageNext ==
  \/ \E stage \in Stages, topic \in Topics,
        given \in {None} \cup ReturnedResults(Stages, Topics) :
       Stage(Call(stage, topic, given))
  \/ \E i \in 1..Len(calls), loaded, research_built, math_built \in BOOLEAN :
       Stage(ToolsResume(i, loaded, research_built, math_built))
  \/ \E i \in 1..Len(calls) : Stage(AgentReturns(i))
  \/ \E i \in 1..Len(calls) : Stage(AgentRaises(i))
  \/ \E i \in 1..Len(calls) : Stage(CompletionReturns(i))
  \/ \E i \in 1..Len(calls), e \in Exceptions : Stage(CompletionRaises(i, e))

StageSpec == Init /\ [][StageNext]_all_vars

(* ------------------------ one call of the validator -------------------- *)
\* words the inputs are made of: a non-math indicator, a math keyword, a
\* text only a regular expression matches, a variable only a regular
\* expression matches, an edge-case word, a word of no list, and whitespace
Words ==
  {<<"N", "e", "w", "s">>, <<"a", "r", "e", "a">>, <<"3", ".", "5">>,
   <<"2", "X">>, <<"f", "i", "n", "d">>, <<"h", "i">>, <<" ">>}

RECURSIVE Join(_)
\* the words of a sequence, one after the other
Join(words) == IF words = <<>> THEN <<>> ELSE Head(words) \o Join(Tail(words))

Inputs == {Join(words) : words \in UNION {[1..n -> Words] : n \in 0..MaxWords}}

\* a caller hands a text to the validator
Submit(text) ==
  /\ input' = text
  /\ verdict' = None

\* validate_math_input(input) returns
ValidateInput ==
  /\ verdict = None
  /\ verdict' = validate_math_input(input)
  /\ UNCHANGED input

\* a step of the validator alone
Guard(A) == A /\ UNCHANGED <<vars, stage_vars>>

GuardNext ==
  \/ \E text \in Inputs : Guard(Submit(text))
  \/ Guard(ValidateInput)

GuardSpec == Init /\ [][GuardNext]_all_vars

(* ------------------------- the claims: vocabulary --------------------- *)
Status(s) == sess[s].status
Flag(s) == sess[s].waiting_for_approval
Last(messages) == messages[Len(messages)]

\* the step in which a pipeline task of session s returns from solve_problem
\* with `solution` and runs step 3
PipelineFinishes(t) ==
  \/ \E tier \in Answers : SolveResume(t, tier)
  \/ running = t /\ SolveReturn

\* the step in which an exception leaves a stage call of pipeline task t
PipelineRaises(t) == ResearchRaise(t) \/ SolveRaise(t)

InFlight == BagToSet(tasks) \cup (IF running = NoTask THEN {} ELSE {running})

(* C1: POST /human-input for a stored session whose status is not          *)
(* waiting_for_approval is answered 400 and changes nothing, in every      *)
(* reachable state.                                                        *)
C1_RejectedUnlessWaiting ==
  [][\A s \in sessions, f \in Feedbacks :
       (Status(s) # "waiting_for_approval" /\ human_input(s, f))
         => (human_input_code(s) = 400 /\ sess' = sess /\ handlers' = handlers)]_vars

(* C2: in every reachable state of every stored session the                *)
(* waiting_for_approval flag is true exactly when current_solution is not  *)
(* null.                                                                   *)
C2_FlagIffSolution ==
  \A s \in sessions : Flag(s) <=> (sess[s].current_solution # None)

(* C3: in every reachable state of every stored session, a status other    *)
(* than waiting_for_approval comes with a false waiting_for_approval flag. *)
C3_FlagOnlyWhenWaiting ==
  \A s \in sessions : Status(s) # "waiting_for_approval" => ~Flag(s)

(* C4: every change of a stored session's status follows an edge of the    *)
(* lifecycle.                                                              *)
LifecycleEdges ==
  {<<"processing", "researching">>, <<"researching", "solving">>,
   <<"solving", "waiting_for_approval">>,
   <<"waiting_for_approval", "improving">>,
   <<"improving", "waiting_for_approval">>,
   <<"waiting_for_approval", "completed">>}
  \cup {<<from, "error">> :
          from \in {"processing", "researching", "solving",
                    "waiting_for_approval", "improving", "completed", "error"}}

C4_StatusFollowsLifecycle ==
  [][\A s \in sessions :
       sess'[s].status # sess[s].status
         => <<sess[s].status, sess'[s].status>> \in LifecycleEdges]_vars

(* C5: when POST /chat returns, for a new and for a continued session      *)
(* alike, the topic is the last message, a user message, the stored status *)
(* is processing, and exactly one pipeline task was launched for the       *)
(* session.                                                                *)
C5_ChatLeavesProcessing ==
  [][\A topic \in Topics, session_id \in KnownIds \cup {NoId},
        id \in 1..(Len(sess) + 1) :
       (/\ chat(topic, session_id)
        /\ id = IF session_id \in sessions THEN session_id ELSE Len(sess) + 1)
         => /\ id \in sessions'
            /\ Last(sess'[id].messages) = Message("user", Raw(topic))
            /\ get_chat_response(id)'.code = 200
            /\ get_chat_response(id)'.status = "processing"
            /\ tasks' = tasks (+) create_task(id, topic)]_vars

(* C6 as claimed: when a pipeline task of a stored session returns from    *)
(* Solve, one step stores the Solve result as current_solution, sets the   *)
(* flag and status waiting_for_approval and appends one assistant message  *)
(* containing that solution, and research_context holds the Research       *)
(* result of the same task.                                                *)
Presented(t) ==
  LET s == t.session_id
  IN /\ \E tier \in Tiers :
          sess'[s].current_solution =
            solve_problem(t.topic, t.research_result, tier)
     /\ sess'[s].waiting_for_approval
     /\ sess'[s].status = "waiting_for_approval"
     /\ sess'[s].messages =
          Append(sess[s].messages,
                 Message("assistant",
                         approval_message(sess'[s].current_solution)))

C6_FinishHoldsOwnResearch ==
  [][\A t \in InFlight :
       (t.pc = "solve" /\ t.session_id \in sessions /\ PipelineFinishes(t))
         => (Presented(t)
             /\ sess'[t.session_id].research_context = t.research_result)]_vars

(* C6 as amended: the same step, which leaves research_context as it is;   *)
(* research_context changes only when a pipeline task of the session       *)
(* returns from Research, to that task's Research result, so it holds the  *)
(* result of the task that returned from Research last.                    *)
C6_FinishPresentsSolution ==
  [][/\ \A t \in InFlight :
          (t.pc = "solve" /\ t.session_id \in sessions /\ PipelineFinishes(t))
            => (Presented(t)
                /\ sess'[t.session_id].research_context
                     = sess[t.session_id].research_context)
     /\ \A s \in DOMAIN sess :
          sess'[s].research_context # sess[s].research_context
            => \E t \in InFlight :
                 /\ t.session_id = s
                 /\ t.pc = "research"
                 /\ \E tier \in Tiers :
                      sess'[s].research_context = research_topic(t.topic, tier)
                 /\ \E n \in BagToSet(tasks') \cup {running'} :
                      /\ n.pc = "solve"
                      /\ n.session_id = s
                      /\ n.research_result = sess'[s].research_context]_vars

\* a presented session whose solution answers an accepted topic while its
\* research_context is the validator's rejection of another task's topic
C6_Witness ==
  \E s \in sessions :
    /\ Status(s) = "waiting_for_approval"
    /\ Flag(s)
    /\ Last(sess[s].messages)
         = Message("assistant", approval_message(sess[s].current_solution))
    /\ sess[s].current_solution.k = "llm"
    /\ sess[s].research_context.k = "literal"

(* C7: a feedback text that contains an approval word, submitted while the *)
(* status is waiting_for_approval, is accepted and leaves the session      *)
(* completed, with current_solution null, the flag false and the feedback  *)
(* and one final assistant message appended, without a Revise call.        *)
C7_ApprovalCompletes ==
  \A s \in sessions, f \in Feedbacks :
    (IsApproval(f) /\ Status(s) = "waiting_for_approval")
      => /\ human_input_code(s) = 200
         /\ LET after == Approve(sess[s], f)
            IN /\ after.status = "completed"
               /\ after.current_solution = None
               /\ ~after.waiting_for_approval
               /\ Len(after.messages) = Len(sess[s].messages) + 2
               /\ after.messages[Len(after.messages) - 1]
                    = Message("user", Raw(f))
               /\ Last(after.messages).role = "assistant"

(* C8: a feedback text that contains no approval word, submitted while the *)
(* status is waiting_for_approval, is accepted, sets status improving and  *)
(* calls Revise once with the current solution, the feedback and the       *)
(* session topic; when Revise returns the status is waiting_for_approval   *)
(* again with the revised solution as current_solution and a new review    *)
(* prompt appended after the earlier messages.                             *)
C8_FeedbackRevises ==
  \A s \in sessions, f \in Feedbacks :
    (~IsApproval(f) /\ Status(s) = "waiting_for_approval")
      => /\ human_input_code(s) = 200
         /\ Improving(sess[s], f).status = "improving"
         /\ \A tier \in Tiers :
              LET revised == improve_solution(sess[s].current_solution, f,
                                              sess[s].current_topic, tier)
                  after == Improved(Improving(sess[s], f), f, revised)
              IN /\ after.status = "waiting_for_approval"
                 /\ after.current_solution = revised
                 /\ Last(after.messages).content.solution = revised
                 /\ SubSeq(after.messages, 1, Len(sess[s].messages))
                      = sess[s].messages

(* C9: when an exception is raised inside a pipeline task or inside         *)
(* feedback processing of a session that is in the store, that step sets   *)
(* the status to error, appends exactly one diagnostic assistant message   *)
(* and keeps the session in the store, where GET reports status error.     *)
ErrorRecorded(s, diagnostic) ==
  /\ s \in sessions'
  /\ sess'[s].status = "error"
  /\ sess'[s].messages
       = Append(sess[s].messages, Message("assistant", Literal(diagnostic)))
  /\ get_chat_response(s)'.code = 200
  /\ get_chat_response(s)'.status = "error"

C9_ExceptionRecordsError ==
  [][/\ \A t \in BagToSet(tasks) :
          (PipelineRaises(t) /\ t.session_id \in sessions)
            => ErrorRecorded(t.session_id, "encountered_error")
     /\ \A h \in BagToSet(handlers) :
          (ImproveRaise(h) /\ h.session_id \in sessions)
            => ErrorRecorded(h.session_id, "error_processing_feedback")]_vars

\* a stored session an exception left in status error
C9_Witness ==
  \E s \in sessions :
    /\ Status(s) = "error"
    /\ Last(sess[s].messages).role = "assistant"
    /\ Last(sess[s].messages).content
         \in {Literal("encountered_error"), Literal("error_processing_feedback")}

(* C10: once the status of a stored session is error, no later request or  *)
(* task completion changes the status or the solution while the session    *)
(* stays in the store.                                                     *)
C10_ErrorIsFinal ==
  [][\A s \in sessions \cap sessions' :
       Status(s) = "error"
         => /\ sess'[s].status = "error"
            /\ sess'[s].current_solution = sess[s].current_solution]_vars

(* C11: once DELETE /chat/{session_id} has removed a session, its id never *)
(* returns to the store, whatever the tasks and handlers still in flight   *)
(* for it do, so GET, POST /human-input and DELETE for it answer 404 from  *)
(* then on.                                                                *)
Answers404(s) ==
  /\ get_chat_response(s).code = 404
  /\ human_input_code(s) = 404
  /\ delete_session_code(s) = 404

C11_DeletedStaysDeleted ==
  [][/\ \A s \in sessions :
          (delete_session(s) /\ delete_session_code(s) = 200)
            => (s \notin sessions' /\ Answers404(s)')
     /\ \A s \in DOMAIN sess :
          s \notin sessions => (s \notin sessions' /\ Answers404(s)')]_vars

\* a deleted session whose pipeline task was in flight at the deletion and
\* has ended since: only a task that ends on a missing session leaves the
\* status it wrote last in place
C11_Witness ==
  \E s \in DOMAIN sess :
    /\ s \notin sessions
    /\ Answers404(s)
    /\ \A t \in InFlight : t.session_id # s
    /\ \A h \in BagToSet(handlers) : h.session_id # s
    /\ Status(s) \in {"researching", "solving"}

IsPrefix(before, after) ==
  Len(before) <= Len(after) /\ SubSeq(after, 1, Len(before)) = before

C13_MessagesAppendOnly ==
  [][\A s \in DOMAIN sess' :
       LET before == IF s \in DOMAIN sess THEN sess[s].messages ELSE <<>>
       IN /\ IsPrefix(before, sess'[s].messages)
          /\ \A i \in (Len(before) + 1)..Len(sess'[s].messages) :
               sess'[s].messages[i].role \in {"user", "assistant"}]_vars

\* a stored session whose list the chat handler, two pipeline tasks and the
\* feedback handler have all appended to
C13_Witness ==
  \E s \in sessions :
    LET m == sess[s].messages
    IN /\ Len(m) >= 6
       /\ m[1].role = "user" /\ m[2].role = "user"
       /\ \E i, j, k \in 3..Len(m) :
            /\ i < j /\ j < k
            /\ m[i].content.k = "approval_message"
            /\ m[j].role = "user"
            /\ m[k].content.k \in {"thank_you", "solution_approved", "literal"}

(* C16: tasks of one session overlap, and the one that finishes writes its *)
(* own result whatever the others did: a pipeline task that returns from   *)
(* Solve, and a feedback handler that returns from Revise, store their own *)
(* solution as current_solution and status waiting_for_approval and append *)
(* their message to all the messages appended so far.                      *)
C16_LastWriteWins ==
  [][/\ \A t \in InFlight :
          (t.pc = "solve" /\ PipelineFinishes(t))
            => LET s == t.session_id
               IN /\ \E tier \in Tiers :
                       sess'[s].current_solution
                         = solve_problem(t.topic, t.research_result, tier)
                  /\ sess'[s].status = "waiting_for_approval"
                  /\ sess'[s].messages
                       = Append(sess[s].messages,
                                Message("assistant",
                                        approval_message(sess'[s].current_solution)))
     /\ \A h \in BagToSet(handlers) :
          (\E tier \in Answers : ImproveResume(h, tier))
            => LET s == h.session_id
               IN /\ \E tier \in Tiers :
                       sess'[s].current_solution
                         = improve_solution(h.current_solution, h.feedback,
                                            h.topic, tier)
                  /\ sess'[s].status = "waiting_for_approval"
                  /\ Len(sess'[s].messages) = Len(sess[s].messages) + 1
                  /\ IsPrefix(sess[s].messages, sess'[s].messages)
                  /\ Last(sess'[s].messages).content.solution
                       = sess'[s].current_solution]_vars

\* two pipelines of one session overlapped and both have finished: the
\* second topic was appended before the first solution, and the session
\* holds the solution presented last
C16_Witness ==
  \E s \in sessions :
    LET m == sess[s].messages
    IN /\ Len(m) = 4
       /\ m[1].role = "user" /\ m[2].role = "user"
       /\ m[3].content.k = "approval_message"
       /\ m[4].content.k = "approval_message"
       /\ \A t \in InFlight : t.session_id # s
       /\ Status(s) = "waiting_for_approval"
       /\ sess[s].current_solution = m[4].content.solution

(* C14: whatever fails among tool loading, the two agent constructions,    *)
(* the agent run and the direct completion, no stage call raises: a call   *)
(* that ended returned a text, so the except branches of                   *)
(* process_math_question and human_input (status error, HTTP 500) are not  *)
(* entered on account of a stage.                                          *)
CallerEntersExcept(c) == c.pc = "raised"

C14_StagesNeverRaise ==
  \A i \in 1..Len(calls) :
    /\ calls[i].pc # "raised"
    /\ ~CallerEntersExcept(calls[i])
    /\ calls[i].pc = "returned"
         => calls[i].result.k \in {"literal", "llm", "error_text"}

\* both agents failed to build, one call fell through to a completion that
\* failed too, and another call returned although its run raised
C14_Witness ==
  /\ agent.tools_initialized
  /\ agent.research_agent = None
  /\ \E i, j \in 1..Len(calls) :
       /\ calls[i].pc = "returned"
       /\ ~calls[i].found
       /\ calls[i].completions = 1
       /\ calls[i].result = StageResult(calls[i], "DeadlineExceeded")
       /\ calls[j].pc = "returned"
       /\ calls[j].run_raised

(* C17: research_topic and solve_problem return the validator's message    *)
(* for a topic it rejects before anything else: the call ends in its first *)
(* step, the agent's fields are as before, and no agent run or completion  *)
(* is counted for it; improve_solution goes on to _create_agents whatever  *)
(* its topic, and returns only after an agent run or a completion.         *)
C17_ValidationBeforeWork ==
  [][/\ \A stage \in Stages, topic \in Topics,
          given \in {None} \cup ReturnedResults(Stages, Topics) :
          Call(stage, topic, given)
            => LET c == calls'[Len(calls')]
               IN /\ (stage # "improve_solution"
                      /\ ~validate_math_input(topic).is_valid)
                        => /\ c.pc = "returned"
                           /\ c.result = validate_math_input(topic).message
                           /\ c.runs = 0 /\ c.completions = 0
                           /\ agent' = agent
                  /\ stage = "improve_solution"
                       => c.pc \in {"get_mcp_tools", "run", "acomplete"}
     /\ \A i \in 1..Len(calls) :
          /\ calls[i].pc = "returned" => calls'[i] = calls[i]
          /\ (calls'[i].stage = "improve_solution" /\ calls'[i].pc = "returned")
               => calls'[i].runs + calls'[i].completions >= 1]_all_vars

\* research_topic returned the rejection of a topic on an agent never set
\* up, and improve_solution went on to a remote call for the same topic
C17_Witness ==
  \E i, j \in 1..Len(calls) :
    /\ calls[i].stage = "research_topic"
    /\ ~validate_math_input(calls[i].topic).is_valid
    /\ calls[i].pc = "returned"
    /\ calls[i].runs + calls[i].completions = 0
    /\ calls[j].stage = "improve_solution"
    /\ calls[j].topic = calls[i].topic
    /\ calls[j].runs + calls[j].completions >= 1

(* C18: the validator returns invalid for every input that contains a      *)
(* non-math indicator, in any case of letters, whatever math keyword,      *)
(* regular expression or edge-case word the input also matches.            *)
HasIndicator(text) == ContainsAny(lower(text), NON_MATH_INDICATORS)
HasKeyword(text) == ContainsAny(lower(text), MATH_KEYWORDS)
HasPattern(text) == MATH_PATTERNS(text) \/ MATH_PATTERNS(lower(text))

C18_RejectTakesPrecedence ==
  (verdict # None /\ HasIndicator(input))
    => /\ ~verdict.is_valid
       /\ verdict.message = Literal("designed_for_math")

\* an input with an indicator and a math keyword, found invalid
C18_Witness ==
  /\ verdict # None
  /\ HasIndicator(input)
  /\ HasKeyword(input)
  /\ ~verdict.is_valid

(* C19 as claimed: the validator returns valid for every input that        *)
(* contains a math keyword or matches a math regular expression.           *)
C19_MathInputIsValid ==
  (verdict # None /\ (HasKeyword(input) \/ HasPattern(input)))
    => verdict.is_valid

(* C19 as amended: the validator returns valid for every input that        *)
(* contains no non-math indicator and contains a math keyword or matches a *)
(* math regular expression.                                                *)
C19_MathInputWithoutIndicatorIsValid ==
  (verdict # None /\ ~HasIndicator(input)
   /\ (HasKeyword(input) \/ HasPattern(input)))
    => (verdict.is_valid /\ verdict.message = Literal("valid_input"))

\* an input no keyword is part of, which a regular expression matches,
\* found valid
C19_Witness ==
  /\ verdict # None
  /\ ~HasIndicator(input)
  /\ ~HasKeyword(input)
  /\ HasPattern(input)
  /\ verdict.is_valid

(* C20 as claimed: a stage call runs the agent at most once and requests   *)
(* the direct completion at most once, only when it found no agent built   *)
(* or its run raised, never after a run that returned; when the completion *)
(* fails too the call returns a fixed text.                                *)
TwoTier(c) ==
  /\ c.runs <= 1
  /\ c.completions <= 1
  /\ c.runs = 1 <=> c.found
  /\ c.completions = 1 => (~c.found \/ c.run_raised)
  /\ (c.pc = "returned" /\ c.found /\ ~c.run_raised) => c.completions = 0
  /\ (c.pc = "returned" /\ c.found /\ ~c.run_raised)
       => c.result = StageResult(c, "agent")

\* the call returned after its completion raised e
Degraded(c, e) ==
  /\ c.pc = "returned"
  /\ c.completions = 1
  /\ c.result = StageResult(c, e)

C20_TwoTierFixedText ==
  \A i \in 1..Len(calls) :
    /\ TwoTier(calls[i])
    /\ \A e \in Exceptions :
         Degraded(calls[i], e) => calls[i].result.k = "literal"

(* C20 as amended: the same order of the two tiers; when the completion    *)
(* fails too, research_topic returns a fixed text, and solve_problem and   *)
(* improve_solution return a fixed text followed by the text of the        *)
(* exception the completion raised.                                        *)
C20_TwoTierDegradedText ==
  \A i \in 1..Len(calls) :
    /\ TwoTier(calls[i])
    /\ \A e \in Exceptions :
         Degraded(calls[i], e)
           => calls[i].result =
                IF calls[i].stage = "research_topic"
                THEN Literal("fundamental_principles")
                ELSE IF calls[i].stage = "solve_problem"
                THEN ErrorText("error_solving", e)
                ELSE ErrorText("error_improving", e)

\* a solve_problem call whose agent run raised and whose completion raised
\* too, and a research_topic call that found no agent and whose completion
\* raised
C20_Witness ==
  \E i, j \in 1..Len(calls) :
    /\ calls[i].stage = "solve_problem"
    /\ calls[i].run_raised
    /\ Degraded(calls[i], "ResourceExhausted")
    /\ calls[i].result.k = "error_text"
    /\ calls[j].stage = "research_topic"
    /\ ~calls[j].found
    /\ \E e \in Exceptions : Degraded(calls[j], e)

(* C15: with no feedback and no deletion, and every remote call returning  *)
(* or failing, a stored session in status processing reaches status        *)
(* waiting_for_approval or error, and once the requests for it have        *)
(* stopped its status is one of the two for good.                          *)
Settled(s) ==
  s \in sessions /\ Status(s) \in {"waiting_for_approval", "error"}

C15_PipelineTerminates ==
  \A s \in 1..MaxSessions :
    /\ (s \in sessions /\ Status(s) = "processing") ~> Settled(s)
    /\ (s \in sessions /\ Status(s) = "processing") ~> [](Settled(s))

\* a session whose only pipeline has ended, with its outcome as the last
\* message
C15_Witness ==
  \E s \in sessions :
    /\ InFlight = {}
    /\ Settled(s)
    /\ Len(sess[s].messages) = 2
    /\ Last(sess[s].messages).role = "assistant"

(* C21: in every reachable state a stored session whose status is          *)
(* waiting_for_approval has the flag true and a current_solution, so       *)
(* POST /human-input for it is not answered 400.                           *)
C21_WaitingCanBeAnswered ==
  \A s \in sessions :
    Status(s) = "waiting_for_approval"
      => /\ Flag(s)
         /\ sess[s].current_solution # None
         /\ human_input_code(s) # 400

(* C22: the pipeline of a topic the validator rejects, on a session that   *)
(* is stored when the task starts, awaits no remote call and takes no      *)
(* except branch: it writes researching, then the rejection message as     *)
(* research_context and solving, then the same message as current_solution *)
(* with the flag, status waiting_for_approval and a review prompt that     *)
(* holds the message, with no other step in between.  The stages return    *)
(* the message for an empty topic as for a non-math one.                   *)
Rejected(topic) == ~validate_math_input(topic).is_valid

\* the rejected topics of the requests, and the empty and the blank topic
RejectedTopics == {topic \in Topics \cup {<<>>, <<" ">>} : Rejected(topic)}

RejectionReturned ==
  /\ <<>> \in RejectedTopics
  /\ \A topic \in RejectedTopics, tier \in Tiers :
       /\ ~Awaits(topic)
       /\ research_topic(topic, tier) = validate_math_input(topic).message
       /\ solve_problem(topic, research_topic(topic, tier), tier)
            = validate_math_input(topic).message

C22_RejectedTopicIsPresented ==
  [][/\ RejectionReturned
     /\ \A t \in BagToSet(tasks) : t.topic \in RejectedTopics => t.pc = "start"
     /\ \A t \in BagToSet(tasks) :
          (t.topic \in RejectedTopics /\ t.session_id \in sessions
           /\ PipelineStart(t))
            => /\ running' = [t EXCEPT !.pc = "research"]
               /\ sess'[t.session_id].status = "researching"
     /\ (running # NoTask /\ running.topic \in RejectedTopics)
          => LET s == running.session_id
                 message == validate_math_input(running.topic).message
             IN /\ ~(\E t \in BagToSet(tasks) : ResearchRaise(t) \/ SolveRaise(t))
                /\ running.pc = "research"
                     => /\ ResearchReturn
                        /\ sess'[s].status = "solving"
                        /\ sess'[s].research_context = message
                        /\ running' = [running EXCEPT !.pc = "solve",
                                                      !.research_result = message]
                /\ running.pc = "solve"
                     => /\ SolveReturn
                        /\ running' = NoTask
                        /\ sess'[s].status = "waiting_for_approval"
                        /\ sess'[s].waiting_for_approval
                        /\ sess'[s].current_solution = message
                        /\ sess'[s].research_context = message
                        /\ sess'[s].messages
                             = Append(sess[s].messages,
                                      Message("assistant",
                                              approval_message(message)))]_vars

\* a stored session that presents the rejection of its topic as the solution
C22_Witness ==
  \E s \in sessions :
    /\ Rejected(sess[s].current_topic)
    /\ Status(s) = "waiting_for_approval"
    /\ Flag(s)
    /\ sess[s].current_solution = validate_math_input(sess[s].current_topic).message
    /\ sess[s].research_context = sess[s].current_solution
    /\ Last(sess[s].messages)
         = Message("assistant", approval_message(sess[s].current_solution))
    /\ InFlight = {}

(* C24: no step changes the current_topic of a session, which is the topic *)
(* of the request that created it, the first message; a Revise call gets   *)
(* that topic, whichever request the solution it revises came from.        *)
C24_TopicIsFixed ==
  [][/\ \A s \in DOMAIN sess : sess'[s].current_topic = sess[s].current_topic
     /\ \A s \in DOMAIN sess' :
          sess'[s].messages[1] = Message("user", Raw(sess'[s].current_topic))
     /\ \A h \in BagToSet(handlers') :
          h.topic = sess'[h.session_id].messages[1].content.text]_vars

\* a Revise call in flight with the topic the session was created with,
\* for a solution a later request with another topic produced
C24_Witness ==
  \E h \in BagToSet(handlers) :
    /\ Rejected(h.topic)
    /\ h.topic = sess[h.session_id].current_topic
    /\ h.current_solution.k = "llm"
    /\ \E i \in 2..Len(sess[h.session_id].messages) :
         /\ sess[h.session_id].messages[i].role = "user"
         /\ sess[h.session_id].messages[i].content = Raw(<<"x", "+", "1">>)

(* C23: the body of _create_agents runs at most once for one               *)
(* MathematicalAgent: at most one stage call of the agent goes past the    *)
(* tools_initialized test, also when calls overlap.                        *)
Creators == {i \in 1..Len(calls) : calls[i].created}

C23_AgentsCreatedOnce == Cardinality(Creators) <= 1

\* the part of C23 that the code keeps: once a call has left the body, with
\* agents built or not, the flag is set and no later call enters the body
C23_NoCreationAfterCreation ==
  [][\A i \in 1..Len(calls') :
       (i > Len(calls) /\ calls'[i].created)
         => /\ ~agent.tools_initialized
            /\ \A j \in Creators : calls[j].pc = "get_mcp_tools"]_stage_vars
====
